---- MODULE Spec2Model ----
(***************************************************************************)
(* memoizeAsync (src/src/memoizeAsync.ts): an async memoizer that caches   *)
(* the promise of every computation under JSON.stringify(args) for ttlMs   *)
(* milliseconds and deletes the entry of a key when a computation for it   *)
(* rejects.                                                                *)
(*                                                                         *)
(* The model follows the JavaScript run-to-completion semantics: a call of *)
(* memoized(...) or of clear() is one atomic step; the settlement of the   *)
(* promise returned by fn and the reaction of .catch(...) to it (a         *)
(* microtask) are separate steps.                                          *)
(***************************************************************************)
EXTENDS Integers, Sequences, FiniteSets, TLC

\* ---------------------------------------------------------------- bounds
MaxCalls == 3      \* calls of memoized(...) in one behaviour
MaxPromises == 2   \* calls of fn that return a promise, in one behaviour
MaxTime == 2       \* Date.now() ranges over 0..MaxTime

\* ------------------------------------------------------ program constants
DefaultTtlMs == 5000

\* ----------------------------------------------------------- JS values
\* The values of the model: a number, null, undefined, a function, the
\* object {a: n} and an object that refers to itself. ref tells two objects
\* with the same content apart (reference identity); it is 0 for the rest.
Num(n) == [t |-> "number", v |-> n, ref |-> 0]
Null == [t |-> "null", v |-> 0, ref |-> 0]
Undefined == [t |-> "undefined", v |-> 0, ref |-> 0]
Function == [t |-> "function", v |-> 0, ref |-> 0]
Obj(r, n) == [t |-> "object", v |-> n, ref |-> r]
Cyclic == [t |-> "cyclic", v |-> 0, ref |-> 0]

\* The argument tuples the callers use.
ArgTuples == {<<Num(5)>>, <<Null>>}

\* Other callers: two distinct objects with the same content; null and
\* undefined; a function, a self-referring object and null.
ObjectArgTuples == {<<Obj(1, 10)>>, <<Obj(2, 10)>>}
NullishArgTuples == {<<Null>>, <<Undefined>>}
UnserializableArgTuples == {<<Function>>, <<Cyclic>>, <<Null>>}

\* The ttlMs argument of memoizeAsync: omitted, or a number.
TtlArgs == {Undefined, Num(1)}

Digit(d) == CASE d = 0 -> "0" [] d = 1 -> "1" [] d = 2 -> "2" [] d = 3 -> "3"
              [] d = 4 -> "4" [] d = 5 -> "5" [] d = 6 -> "6" [] d = 7 -> "7"
              [] d = 8 -> "8" [] d = 9 -> "9"

RECURSIVE NumberToString(_)
NumberToString(n) ==
    IF n < 10 THEN Digit(n) ELSE NumberToString(n \div 10) \o Digit(n % 10)

\* JSON.stringify of one array element: null, undefined and a function all
\* give "null"; the object {a: n} gives {"a":n}.
StringifyElement(x) ==
    IF x.t = "number" THEN NumberToString(x.v)
    ELSE IF x.t = "object" THEN "{\"a\":" \o NumberToString(x.v) \o "}"
    ELSE "null"

RECURSIVE StringifyElements(_)
StringifyElements(s) ==
    IF Len(s) = 0 THEN ""
    ELSE IF Len(s) = 1 THEN StringifyElement(s[1])
    ELSE StringifyElement(s[1]) \o "," \o StringifyElements(Tail(s))

\* const key = JSON.stringify(args)
JSONstringify(args) == "[" \o StringifyElements(args) \o "]"

\* JSON.stringify(args) throws a TypeError on a circular structure.
StringifyThrows(args) == \E i \in 1..Len(args) : args[i].t = "cyclic"

\* ---------------------------------------------------------------- state
VARIABLES
    argTuples,  \* the argument tuples the callers of this run use
    ttlMs,      \* the ttlMs parameter of memoizeAsync, after defaulting
    now,        \* Date.now()
    cache,      \* the Map: a function from the keys it has to {promise, expires}
    cache2,     \* the Map of a second memoizeAsync(fn, ttlMs) over the same fn
    promises,   \* one record per promise made by fn(...args).catch(...); of is
                \* the memoized function (1 or 2) whose call made it
    ncalls,     \* how many times memoized(...) was called
    last,       \* the latest call of memoized(...): on which memoized function
                \* (1 or 2), what it saw and returned
    cleared,    \* clear() ran and memoized(...) was not called since
    outstanding \* the handles that were still pending at the latest clear()

vars == <<argTuples, ttlMs, now, cache, cache2, promises, ncalls, last, cleared, outstanding>>

\* A settlement: kind is "pending", "value" or "error"; inv is the invocation
\* of fn (the index of its promise) that produced the value or the error.
Pending == [kind |-> "pending", inv |-> 0]
ValueOf(p) == [kind |-> "value", inv |-> p]
ErrorOf(p) == [kind |-> "error", inv |-> p]

\* What a call saw under its key when the Map had nothing.
NoEntry == [promise |-> 0, expires |-> 0]

\* No call yet.
NoCall == [on |-> 1, args |-> <<>>, at |-> 0, seen |-> NoEntry, afterClear |-> FALSE,
           handle |-> 0, invoked |-> FALSE, threw |-> FALSE, failed |-> FALSE]

\* ----------------------------------------------------------- the Map
MapHas(m, k) == k \in DOMAIN m
\* Mutant of MapDelete: the key is left in the Map.
MapDeleteNothing(m, k) == m
MapDelete(m, k) == [x \in (DOMAIN m) \ {k} |-> m[x]]
MapSet(m, k, e) == [x \in (DOMAIN m) \cup {k} |-> IF x = k THEN e ELSE m[x]]
MapClear(m) == [x \in {} |-> NoEntry]

\* ttlMs = 5000: the default applies to an omitted (undefined) argument only.
TtlDefault(arg) == IF arg.t = "undefined" THEN DefaultTtlMs ELSE arg.v

Init ==
    /\ argTuples = ArgTuples
    /\ ttlMs \in {TtlDefault(a) : a \in TtlArgs}
    /\ now = 0
    /\ cache = MapClear(<<>>)
    /\ cache2 = MapClear(<<>>)
    /\ promises = <<>>
    /\ ncalls = 0
    /\ last = NoCall
    /\ cleared = FALSE
    /\ outstanding = {}

\* The key a promise was made under, and whether its callers see it rejected.
KeyOf(p) == JSONstringify(promises[p].args)
Rejected(p) == promises[p].outer.kind = "error"

\* -------------------------------------------------------------- memoized
\* Mutants of ValidEntry: an entry is reused only once its promise has
\* fulfilled (the value, not the pending promise, is what is cached); an
\* entry is taken as expired one tick early; an entry is still reused at the
\* instant t = expires.
ValidEntryOnceResolved(m, key, t) ==
    MapHas(m, key) /\ m[key].expires > t /\ promises[m[key].promise].outer.kind = "value"
ValidEntryExpiresEarly(m, key, t) == MapHas(m, key) /\ m[key].expires > t + 1
ValidEntryAtExpiry(m, key, t) == MapHas(m, key) /\ m[key].expires >= t

\* if (cache.has(key)) { const entry = cache.get(key)!; if (entry.expires > now)
ValidEntry(m, key, t) == MapHas(m, key) /\ m[key].expires > t

\* Mutants of the .catch handler: it leaves the entry in the Map; it empties
\* the Map; it throws a new error in place of the one it caught.
CatchDeleteNothing(m, key, p) == m
CatchDeleteAll(m, key, p) == MapClear(m)
CatchRethrowWrapped(error) == [kind |-> "error", inv |-> 0]

\* The body of .catch((error) => { cache.delete(key); throw error; }), run
\* for promise p made under key.
CatchDelete(m, key, p) == MapDelete(m, key)
CatchRethrow(error) == error

\* Mutant of NewEntry: the entry is stored without the TTL added.
NewEntryNoTtl(p, t) == [promise |-> p, expires |-> t]

\* cache.set(key, { promise, expires: now + ttlMs })
NewEntry(p, t) == [promise |-> p, expires |-> t + ttlMs]

\* memoized(...args), with fn either returning a promise or throwing
\* synchronously (throws) on the miss path.
memoized(args, throws) ==
    LET key == JSONstringify(args)
        seen == IF MapHas(cache, key) THEN cache[key] ELSE NoEntry
        call == [on |-> 1, args |-> args, at |-> now, seen |-> seen,
                 afterClear |-> cleared]
    IN  /\ ncalls < MaxCalls
        /\ ncalls' = ncalls + 1
        /\ cleared' = FALSE
        /\ IF StringifyThrows(args)
           THEN \* JSON.stringify(args) threw: nothing after line 21 runs
                /\ ~throws
                /\ last' = [call EXCEPT !.seen = NoEntry] @@
                                   [handle |-> 0, invoked |-> FALSE, threw |-> TRUE,
                                    failed |-> FALSE]
                /\ UNCHANGED <<cache, promises>>
           ELSE IF ValidEntry(cache, key, now)
           THEN \* return entry.promise
                /\ ~throws
                /\ last' = call @@ [handle |-> cache[key].promise,
                                    invoked |-> FALSE, threw |-> FALSE,
                                    failed |-> Rejected(cache[key].promise)]
                /\ UNCHANGED <<cache, promises>>
           ELSE IF throws
           THEN \* fn(...args) threw: the expired entry is gone, nothing is set
                /\ last' = call @@ [handle |-> 0, invoked |-> TRUE, threw |-> TRUE,
                                    failed |-> FALSE]
                /\ cache' = MapDelete(cache, key)
                /\ UNCHANGED promises
           ELSE LET p == Len(promises) + 1
                IN  /\ Len(promises) < MaxPromises
                    /\ promises' = Append(promises,
                            [of |-> 1, args |-> args, inner |-> Pending,
                             outer |-> Pending])
                    /\ cache' = MapSet(MapDelete(cache, key), key, NewEntry(p, now))
                    /\ last' = call @@ [handle |-> p, invoked |-> TRUE, threw |-> FALSE,
                                        failed |-> FALSE]
        /\ UNCHANGED <<argTuples, ttlMs, cache2, now, outstanding>>

Call == \E args \in argTuples, throws \in BOOLEAN : memoized(args, throws)

\* Mutants of clear: it leaves the Map as it is; it also cancels the
\* promises that are still pending.
clearNothing ==
    /\ cache' = cache
    /\ cleared' = TRUE
    /\ outstanding' = {p \in 1..Len(promises) : promises[p].outer = Pending}
    /\ UNCHANGED <<argTuples, ttlMs, cache2, now, promises, ncalls, last>>
clearCancelling ==
    /\ cache' = MapClear(cache)
    /\ cleared' = TRUE
    /\ outstanding' = {p \in 1..Len(promises) : promises[p].outer = Pending}
    /\ promises' = [p \in 1..Len(promises) |->
                       IF promises[p].outer = Pending
                       THEN [promises[p] EXCEPT !.outer = [kind |-> "error", inv |-> 0]]
                       ELSE promises[p]]
    /\ UNCHANGED <<argTuples, ttlMs, cache2, now, ncalls, last>>

\* memoized.clear = () => { cache.clear(); }
clear ==
    /\ cache' = MapClear(cache)
    /\ cleared' = TRUE
    /\ outstanding' = {p \in 1..Len(promises) : promises[p].outer = Pending}
    /\ UNCHANGED <<argTuples, ttlMs, cache2, now, promises, ncalls, last>>

\* ----------------------------------------------------------- environment
\* Mutant of Tick: a background sweep drops the entries that have expired.
TickSweeping ==
    /\ now < MaxTime
    /\ now' = now + 1
    /\ cache' = [k \in {x \in DOMAIN cache : cache[x].expires > now + 1} |-> cache[k]]
    /\ UNCHANGED <<argTuples, ttlMs, cache2, promises, ncalls, last, cleared, outstanding>>

\* Date.now() advances.
Tick ==
    /\ now < MaxTime
    /\ now' = now + 1
    /\ UNCHANGED <<argTuples, ttlMs, cache2, cache, promises, ncalls, last, cleared, outstanding>>

\* The promise returned by fn(...args) fulfils.
FnResolve(p) ==
    /\ promises[p].inner = Pending
    /\ promises' = [promises EXCEPT ![p].inner = ValueOf(p)]
    /\ UNCHANGED <<argTuples, ttlMs, cache2, now, cache, ncalls, last, cleared, outstanding>>

\* The promise returned by fn(...args) rejects.
FnReject(p) ==
    /\ promises[p].inner = Pending
    /\ promises' = [promises EXCEPT ![p].inner = ErrorOf(p)]
    /\ UNCHANGED <<argTuples, ttlMs, cache2, now, cache, ncalls, last, cleared, outstanding>>

\* Mutant of CatchPassThrough: on fulfilment the entry is written again
\* (a .then that stores the resolved promise under the key).
CatchPassThroughRestores(p) ==
    /\ promises[p].inner.kind = "value"
    /\ promises[p].outer = Pending
    /\ promises' = [promises EXCEPT ![p].outer = promises[p].inner]
    /\ cache' = MapSet(cache, JSONstringify(promises[p].args), NewEntry(p, now))
    /\ UNCHANGED <<argTuples, ttlMs, cache2, now, ncalls, last, cleared, outstanding>>

\* .catch(handler) on a fulfilled promise: the derived promise fulfils with
\* the same value and the handler does not run.
CatchPassThrough(p) ==
    /\ promises[p].inner.kind = "value"
    /\ promises[p].outer = Pending
    /\ promises' = [promises EXCEPT ![p].outer = promises[p].inner]
    /\ UNCHANGED <<argTuples, ttlMs, cache2, now, cache, ncalls, last, cleared, outstanding>>

\* .catch(handler) on a rejected promise: the handler runs, deletes the key
\* and rethrows, so the derived promise rejects.
CatchHandler(p) ==
    /\ promises[p].inner.kind = "error"
    /\ promises[p].outer = Pending
    /\ IF promises[p].of = 1
       THEN /\ cache' = CatchDelete(cache, JSONstringify(promises[p].args), p)
            /\ UNCHANGED cache2
       ELSE /\ cache2' = CatchDelete(cache2, JSONstringify(promises[p].args), p)
            /\ UNCHANGED cache
    /\ promises' = [promises EXCEPT ![p].outer = CatchRethrow(promises[p].inner)]
    /\ UNCHANGED <<argTuples, ttlMs, now, ncalls, last, cleared, outstanding>>

Settle == \E p \in 1..Len(promises) :
    \/ FnResolve(p)
    \/ FnReject(p)
    \/ CatchPassThrough(p)
    \/ CatchHandler(p)

Next == Call \/ clear \/ Tick \/ Settle

Spec == Init /\ [][Next]_vars

\* The microtask queue runs every reaction of .catch(...) to a settled promise.
FairSpec == Spec /\ \A p \in 1..(MaxPromises + 1) :
    /\ WF_vars(p <= Len(promises) /\ CatchPassThrough(p))
    /\ WF_vars(p <= Len(promises) /\ CatchHandler(p))

\* ------------------------------------------- a second memoized function
\* memoizeAsync(fn, ttlMs) called a second time with the same fn: its
\* memoized(...args) is the same code over its own const cache = new Map().
memoized2(args, throws) ==
    LET key == JSONstringify(args)
        seen == IF MapHas(cache2, key) THEN cache2[key] ELSE NoEntry
        call == [on |-> 2, args |-> args, at |-> now, seen |-> seen,
                 afterClear |-> FALSE]
    IN  /\ ncalls < MaxCalls
        /\ ncalls' = ncalls + 1
        /\ IF StringifyThrows(args)
           THEN /\ ~throws
                /\ last' = [call EXCEPT !.seen = NoEntry] @@
                                   [handle |-> 0, invoked |-> FALSE, threw |-> TRUE,
                                    failed |-> FALSE]
                /\ UNCHANGED <<cache2, promises>>
           ELSE IF ValidEntry(cache2, key, now)
           THEN /\ ~throws
                /\ last' = call @@ [handle |-> cache2[key].promise,
                                    invoked |-> FALSE, threw |-> FALSE,
                                    failed |-> Rejected(cache2[key].promise)]
                /\ UNCHANGED <<cache2, promises>>
           ELSE IF throws
           THEN /\ last' = call @@ [handle |-> 0, invoked |-> TRUE, threw |-> TRUE,
                                    failed |-> FALSE]
                /\ cache2' = MapDelete(cache2, key)
                /\ UNCHANGED promises
           ELSE LET p == Len(promises) + 1
                IN  /\ Len(promises) < MaxPromises
                    /\ promises' = Append(promises,
                            [of |-> 2, args |-> args, inner |-> Pending,
                             outer |-> Pending])
                    /\ cache2' = MapSet(MapDelete(cache2, key), key, NewEntry(p, now))
                    /\ last' = call @@ [handle |-> p, invoked |-> TRUE, threw |-> FALSE,
                                        failed |-> FALSE]
        /\ UNCHANGED <<argTuples, ttlMs, now, cache, cleared, outstanding>>

Call2 == \E args \in argTuples, throws \in BOOLEAN : memoized2(args, throws)

\* Mutant of clear2: the two memoized functions share one Map.
clear2Shared ==
    /\ cache2' = MapClear(cache2)
    /\ cache' = MapClear(cache)
    /\ UNCHANGED <<argTuples, ttlMs, now, promises, ncalls, last, cleared, outstanding>>

\* clear() of the second memoized function.
clear2 ==
    /\ cache2' = MapClear(cache2)
    /\ UNCHANGED <<argTuples, ttlMs, now, cache, promises, ncalls, last, cleared,
                   outstanding>>

Next2 == Next \/ Call2 \/ clear2

\* ------------------------------------------------- other constructions
\* memoizeAsync(fn, 0) and memoizeAsync(fn, -1).
NonPositiveTtlArgs == {Num(0), Num(0 - 1)}

TtlInit ==
    /\ argTuples = ArgTuples
    /\ ttlMs \in {TtlDefault(a) : a \in NonPositiveTtlArgs}
    /\ now = 0
    /\ cache = MapClear(<<>>)
    /\ cache2 = MapClear(<<>>)
    /\ promises = <<>>
    /\ ncalls = 0
    /\ last = NoCall
    /\ cleared = FALSE
    /\ outstanding = {}

TtlSpec == TtlInit /\ [][Next]_vars

\* Callers passing equal objects, or null and undefined, or a number and
\* null, to memoizeAsync(fn, 1).
KeyInit ==
    /\ argTuples \in {ObjectArgTuples, NullishArgTuples, ArgTuples}
    /\ ttlMs = TtlDefault(Num(1))
    /\ now = 0
    /\ cache = MapClear(<<>>)
    /\ cache2 = MapClear(<<>>)
    /\ promises = <<>>
    /\ ncalls = 0
    /\ last = NoCall
    /\ cleared = FALSE
    /\ outstanding = {}

KeySpec == KeyInit /\ [][Next]_vars

\* Callers passing a function or a self-referring object.
UnserializableInit ==
    /\ argTuples = UnserializableArgTuples
    /\ ttlMs \in {TtlDefault(a) : a \in TtlArgs}
    /\ now = 0
    /\ cache = MapClear(<<>>)
    /\ cache2 = MapClear(<<>>)
    /\ promises = <<>>
    /\ ncalls = 0
    /\ last = NoCall
    /\ cleared = FALSE
    /\ outstanding = {}

UnserializableSpec == UnserializableInit /\ [][Next]_vars

\* Two memoized functions over the same fn, called with the same arguments.
TwoInit ==
    /\ argTuples = {<<Num(5)>>}
    /\ ttlMs = TtlDefault(Num(1))
    /\ now = 0
    /\ cache = MapClear(<<>>)
    /\ cache2 = MapClear(<<>>)
    /\ promises = <<>>
    /\ ncalls = 0
    /\ last = NoCall
    /\ cleared = FALSE
    /\ outstanding = {}

TwoSpec == TwoInit /\ [][Next2]_vars

\* ======================================================== claim vocabulary
Keys == {JSONstringify(a) : a \in argTuples}
PromiseIds == 1..Len(promises)
LastKey == JSONstringify(last.args)

\* The computation of promise p is in flight: fn's promise has not settled.
InFlight(p) == promises[p].inner = Pending

\* The latest call found an entry under its key, and the time of the call
\* was before (resp. at or after) the entry's expires.
LastSawUnexpired == last.seen # NoEntry /\ last.at < last.seen.expires
LastSawExpired == last.seen # NoEntry /\ last.at >= last.seen.expires

\* This step is a call of memoized(...) under key k / a run of clear() /
\* the run of the .catch handler of promise p.
CallStep(k) ==
    /\ ncalls' = ncalls + 1
    /\ last'.on = 1
    /\ ~StringifyThrows(last'.args)
    /\ JSONstringify(last'.args) = k
ClearStep == cleared' /\ ncalls' = ncalls /\ (~cleared \/ outstanding' # outstanding)
HandlerStep(p) == promises[p].outer = Pending /\ promises'[p].outer.kind = "error"

\* ------------------------------------------------------------------- C1
\* C1 as stated: a caller for key K that arrives while a computation for K
\* is still in flight (and clear() has not run since it started) receives
\* the handle of that computation and fn is not invoked again, whatever the
\* TTL and the duration of the computation.
C1_DedupWhateverTtl ==
    [][\A p \in PromiseIds :
          (CallStep(KeyOf(p)) /\ InFlight(p) /\ p \notin outstanding)
              => (last'.handle = p /\ ~last'.invoked)]_vars

\* C1 amended: a caller for key K that arrives while the store holds an
\* unexpired entry under K receives that entry's handle, fn is not invoked
\* again, and the handle settles to the outcome of its one invocation.
C1_DedupWhileEntryValid ==
    LastSawUnexpired =>
        /\ last.handle = last.seen.promise
        /\ ~last.invoked
        /\ promises[last.handle].outer \in {Pending, promises[last.handle].inner}

\* C1 witness: a second caller joined a computation that is still in flight.
C1_Witness ==
    /\ LastSawUnexpired
    /\ ~last.invoked
    /\ last.handle # 0
    /\ InFlight(last.handle)

\* ------------------------------------------------------------------- C2
\* C2 as stated: at most one invocation of fn is in flight for any key.
C2_OneInFlightPerKey ==
    \A p, q \in PromiseIds :
        (InFlight(p) /\ InFlight(q) /\ KeyOf(p) = KeyOf(q)) => p = q

\* C2 amended: fn is invoked for a key only by a call that finds no entry
\* under the key or an expired one, so every stored entry stands for one
\* invocation; the computations of evicted and cleared entries keep running.
C2_InvokedOnlyOnMiss ==
    /\ last.invoked => (last.seen = NoEntry \/ last.at >= last.seen.expires)
    /\ \A k \in DOMAIN cache :
          /\ cache[k].promise \in PromiseIds
          /\ \A j \in DOMAIN cache : cache[j].promise = cache[k].promise => j = k

\* C2 witness: a call found an expired entry whose computation was still in
\* flight, and invoked fn a second time for the key.
C2_Witness ==
    /\ last.invoked
    /\ LastSawExpired
    /\ last.handle # 0
    /\ InFlight(last.seen.promise)
    /\ InFlight(last.handle)
    /\ KeyOf(last.seen.promise) = KeyOf(last.handle)

\* ------------------------------------------------------------------- C3
\* C3 as stated: the .catch handler of promise p removes an entry only if
\* the entry holds p; every entry holding another handle stays as it is.
C3_FailureCleanupGuard ==
    [][\A p \in PromiseIds : HandlerStep(p) =>
          \A k \in DOMAIN cache :
              cache[k].promise # p => (k \in DOMAIN cache' /\ cache'[k] = cache[k])]_vars

\* ------------------------------------------------------------------- C4
\* C4 as stated: while the computation of a stored entry has not failed, the
\* time is before the entry's expires and clear() does not run (nor has it
\* run while a computation was pending), the entry stays in the store, and
\* every call under its key returns its handle without invoking fn.
C4_EntryServedUntilExpiry ==
    [][\A k \in DOMAIN cache :
          (promises[cache[k].promise].inner.kind # "error"
              /\ now < cache[k].expires /\ ~ClearStep /\ outstanding = {})
          => /\ k \in DOMAIN cache' /\ cache'[k] = cache[k]
             /\ CallStep(k) => (last'.handle = cache[k].promise /\ ~last'.invoked)]_vars

\* ------------------------------------------------------------------- C5
\* C5: a call that finds an entry whose expires is at or before the time of
\* the call does not return that entry's handle: it invokes fn, the handle
\* it returns is the promise of that invocation, made under the call's key,
\* and the expired entry is never in the store again.
C5_NoStaleEntry ==
    LastSawExpired =>
        /\ last.invoked
        /\ last.handle # last.seen.promise
        /\ ~last.threw => (last.handle > last.seen.promise /\ KeyOf(last.handle) = LastKey)
        /\ MapHas(cache, LastKey) => cache[LastKey].promise # last.seen.promise

\* C5 witness: a call made exactly at now = expires got a fresh computation.
C5_Witness ==
    /\ LastSawExpired
    /\ last.at = last.seen.expires
    /\ last.invoked
    /\ last.handle \in PromiseIds
    /\ promises[last.handle].outer = ValueOf(last.handle)

\* ------------------------------------------------------------------- C6
\* C6: the store never holds a handle that its callers see rejected, and no
\* call returns a handle that was already rejected when it returned.
C6_NoCachedFailure ==
    /\ \A k \in DOMAIN cache : ~Rejected(cache[k].promise)
    /\ ~last.failed

\* C6 witness: with TTL remaining, a call made after the failure of an
\* earlier computation for its key was observable invoked fn again.
C6_Witness ==
    /\ ttlMs = DefaultTtlMs
    /\ last.invoked
    /\ last.seen = NoEntry
    /\ ~last.afterClear
    /\ \E p \in PromiseIds :
          p < last.handle /\ KeyOf(p) = LastKey /\ Rejected(p)

\* ------------------------------------------------------------------- C7
\* C7: a handle is seen rejected only with the very error of its own
\* invocation of fn, and a handle whose invocation failed is never seen
\* fulfilled; each handle stands for one invocation, whoever holds it.
C7_FailurePropagatedVerbatim ==
    \A p \in PromiseIds :
        /\ Rejected(p) => (promises[p].inner = ErrorOf(p) /\ promises[p].outer = ErrorOf(p))
        /\ promises[p].inner.kind = "error" => promises[p].outer \in {Pending, ErrorOf(p)}

\* C7 witness: a caller coalesced onto a pending handle, and the handle then
\* rejected with the error of its invocation.
C7_Witness ==
    /\ ~last.invoked
    /\ last.handle # 0
    /\ ~last.failed
    /\ promises[last.handle].outer = ErrorOf(last.handle)

\* ------------------------------------------------------------------- C8
\* C8: from clear() until the next call the store is empty, and the first
\* call after clear() invokes fn, whatever its key.
C8_Reset ==
    /\ cleared => cache = MapClear(cache)
    /\ last.afterClear => (last.invoked /\ last.seen = NoEntry)

\* C8 witness: a key whose computation is still in flight and whose TTL has
\* not run out was called again right after clear(), and fn was invoked.
C8_Witness ==
    /\ ttlMs = DefaultTtlMs
    /\ last.afterClear
    /\ last.invoked
    /\ \E p \in outstanding :
          p < last.handle /\ KeyOf(p) = LastKey /\ InFlight(p)

\* ------------------------------------------------------------------- C9
\* Every handle whose computation has settled shows the outcome of that
\* computation.
AllObserved ==
    \A p \in PromiseIds : ~InFlight(p) => promises[p].outer = promises[p].inner

\* C9: clear() changes no promise; the outcome a handle has settled with is
\* changed by no later step; and (settlement being permanent) every handle
\* whose computation has settled is eventually seen settled with the
\* outcome of that computation.
C9_ResetKeepsHandles ==
    /\ [][ClearStep => promises' = promises]_vars
    /\ [][\A p \in PromiseIds :
             /\ ~InFlight(p) => promises'[p].inner = promises[p].inner
             /\ promises[p].outer # Pending => promises'[p].outer = promises[p].outer]_vars
    /\ []<>AllObserved

\* C9 witness: a handle that was pending when clear() ran has settled with
\* the outcome of its computation.
C9_Witness ==
    \E p \in outstanding :
        promises[p].outer # Pending /\ promises[p].outer = promises[p].inner

\* ------------------------------------------------------------------ C10
\* The entry under key k, NoEntry when there is none.
EntryOf(m, k) == IF MapHas(m, k) THEN m[k] ELSE NoEntry

\* This step is a call under key k or the settlement of a promise made under k.
StepUnder(k) ==
    \/ CallStep(k)
    \/ /\ ncalls' = ncalls
       /\ \E p \in PromiseIds : KeyOf(p) = k /\ promises'[p] # promises[p]

\* C10: a call under K1 and the settlement of a computation of K1 leave the
\* entry and the promises of every other key as they are, and a call under
\* K1 returns a handle made under K1.
C10_KeysIndependent ==
    [][\A k1 \in Keys : StepUnder(k1) =>
          /\ \A k2 \in Keys \ {k1} :
                /\ EntryOf(cache', k2) = EntryOf(cache, k2)
                /\ \A p \in PromiseIds : KeyOf(p) = k2 => promises'[p] = promises[p]
          /\ (CallStep(k1) /\ last'.handle # 0) =>
                JSONstringify(promises'[last'.handle].args) = k1]_vars

\* C10 witness: a computation of one key failed while the entry of another
\* key, made before it, is still stored and has fulfilled.
C10_Witness ==
    \E p \in PromiseIds, k2 \in DOMAIN cache :
        /\ Rejected(p)
        /\ KeyOf(p) # k2
        /\ cache[k2].promise < p
        /\ promises[cache[k2].promise].outer.kind = "value"

\* ------------------------------------------------------------------ C11
\* The latest call made the entry that is now under its key.
LastMadeEntry ==
    /\ last.on = 1 /\ last.invoked /\ last.handle # 0
    /\ MapHas(cache, LastKey)
    /\ cache[LastKey].promise = last.handle

\* C11 as stated, for memoizeAsync(fn, 0) and memoizeAsync(fn, -1): a zero or
\* negative TTL behaves as the default of 5000 ms, so an entry is never
\* expired at the instant it is made and it expires 5000 ms after the call
\* that made it.
C11_NonPositiveTtlIsDefault ==
    LastMadeEntry =>
        /\ cache[LastKey].expires > last.at
        /\ cache[LastKey].expires = last.at + DefaultTtlMs

\* ------------------------------------------------------------------ C12
\* The arguments hold a value that has no JSON form: a function or an object
\* that refers to itself.
NotSerializable(args) ==
    \E i \in 1..Len(args) : args[i].t = "function" \/ args[i].t = "cyclic"

\* C12 as stated: a call whose arguments cannot be turned into a key fails
\* before fn is invoked, and the store is left exactly as it was.
C12_KeyDerivationFailure ==
    [][(ncalls' = ncalls + 1 /\ NotSerializable(last'.args))
          => /\ last'.threw /\ ~last'.invoked
             /\ cache' = cache
             /\ promises' = promises]_vars

\* The part of C12 that the code does: when JSON.stringify(args) throws, fn
\* is not invoked and the Map is not touched.
C12_StringifyThrowsBeforeAnything ==
    [][(ncalls' = ncalls + 1 /\ StringifyThrows(last'.args))
          => /\ last'.threw /\ ~last'.invoked
             /\ cache' = cache
             /\ promises' = promises]_vars

\* ------------------------------------------------------------------ C13
\* Two argument tuples are equal by value: same length and, element by
\* element, same type and same content, whatever the reference.
SameValue(a, b) ==
    /\ Len(a) = Len(b)
    /\ \A i \in 1..Len(a) : a[i].t = b[i].t /\ a[i].v = b[i].v

\* The latest call was answered from an entry (it did not invoke fn).
LastWasHit == last.on = 1 /\ ~last.invoked /\ last.handle # 0

\* C13 as stated: argument tuples that are equal by value, though distinct
\* by reference, get the same key, so the second call within the TTL gets
\* the cached handle; tuples that differ in value get different keys, so a
\* call is answered from an entry only if the entry was made for arguments
\* equal by value to its own.
C13_KeyEquivalence ==
    /\ (last.on = 1 /\ LastSawUnexpired
           /\ SameValue(promises[last.seen.promise].args, last.args))
          => (last.handle = last.seen.promise /\ ~last.invoked)
    /\ LastWasHit => SameValue(promises[last.handle].args, last.args)

\* The part of C13 that the code does: tuples equal by value get the same
\* key and share an entry.
C13_EqualValuesShareKey ==
    \A a, b \in argTuples : SameValue(a, b) => JSONstringify(a) = JSONstringify(b)

\* A call with one object was answered from the entry made for another
\* object with the same content.
C13_SharedByReferenceDistinct ==
    /\ LastWasHit
    /\ promises[last.handle].args # last.args
    /\ SameValue(promises[last.handle].args, last.args)

\* ------------------------------------------------------------------ C14
\* C14 as stated: on a miss the new handle is stored under the key in the
\* same step that invokes fn, while its outcome is still unknown; from then
\* until the computation resolves, with the entry unexpired and no clear(),
\* the store holds that handle under the key and a caller for the key gets
\* it without a new invocation.
C14_PublishBeforeResolve ==
    [][/\ \A k \in Keys :
             (CallStep(k) /\ last'.invoked /\ ~last'.threw)
                 => /\ MapHas(cache', k)
                    /\ cache'[k].promise = last'.handle
                    /\ promises'[last'.handle].inner = Pending
       /\ (/\ last.on = 1 /\ last.invoked /\ last.handle # 0
           /\ InFlight(last.handle)
           /\ now < last.at + ttlMs
           /\ ~cleared)
              => /\ MapHas(cache, LastKey)
                 /\ cache[LastKey].promise = last.handle
                 /\ CallStep(LastKey)
                       => (last'.handle = last.handle /\ ~last'.invoked)]_vars

\* The part of C14 that the code does: the handle is in the Map, pending,
\* when memoized(...) returns from a miss, and a call that finds it there
\* unexpired gets it.
C14_PublishedOnReturn ==
    [][\A k \in Keys :
          /\ (CallStep(k) /\ last'.invoked /\ ~last'.threw)
                => /\ MapHas(cache', k)
                   /\ cache'[k].promise = last'.handle
                   /\ promises'[last'.handle].inner = Pending
          /\ (CallStep(k) /\ ValidEntry(cache, k, now))
                => (last'.handle = cache[k].promise /\ ~last'.invoked)]_vars

\* ------------------------------------------------------------------ C15
\* A handle that is under key k after a step was under k before the step,
\* or was made by this step.
HandleKeptOrNew(k) ==
    \/ MapHas(cache, k) /\ cache'[k] = cache[k]
    \/ /\ CallStep(k)
       /\ cache'[k].promise = Len(promises) + 1
       /\ Len(promises') = Len(promises) + 1

\* C15: a call of memoized(...) is one step that looks up, evicts and
\* publishes. If the entry under its key is there and unexpired, the caller
\* gets its handle and nothing is made; otherwise (the entry was removed or
\* has expired) the caller does not get the old handle: fn is invoked and
\* what is under the key afterwards is the new handle alone, or nothing if
\* fn threw. A handle enters the store only in the step that made it, so a
\* removed handle is never handed out again and two handles are made for
\* one key only with a removal of the first in between (by the second call
\* itself when it finds the first expired).
C15_SerializedOrdering ==
    [][/\ \A k \in Keys : CallStep(k) =>
             IF MapHas(cache, k) /\ now < cache[k].expires
             THEN /\ last'.handle = cache[k].promise /\ ~last'.invoked
                  /\ cache' = cache /\ promises' = promises
             ELSE /\ last'.invoked
                  /\ MapHas(cache, k) => last'.handle # cache[k].promise
                  /\ IF last'.threw
                     THEN ~MapHas(cache', k)
                     ELSE /\ MapHas(cache', k)
                          /\ cache'[k].promise = last'.handle
                          /\ last'.handle = Len(promises) + 1
       /\ \A k \in DOMAIN cache' : HandleKeptOrNew(k)]_vars

\* A caller got the handle of an entry before its removal; the entry was
\* then removed by failure cleanup and the store has nothing under the key.
C15_Witness ==
    /\ LastWasHit
    /\ LastSawUnexpired
    /\ Rejected(last.handle)
    /\ ~last.failed
    /\ ~MapHas(cache, LastKey)
    /\ ~cleared

\* ------------------------------------------------------------------ C16
\* C16: a call answered from an unexpired entry leaves the Map as it is; an
\* entry's expires is the time of the call that made it plus ttlMs, and no
\* later step (a hit, a resolution, a tick) changes the expires of an
\* entry that stays in the Map.
C16_HitChangesNothing ==
    [][/\ \A k \in Keys :
             /\ (CallStep(k) /\ ~last'.invoked) => cache' = cache
             /\ (CallStep(k) /\ last'.invoked /\ ~last'.threw)
                   => cache'[k].expires = now + ttlMs
       /\ \A k \in DOMAIN cache \cap DOMAIN cache' :
             cache'[k].promise = cache[k].promise
                 => cache'[k].expires = cache[k].expires]_vars

\* A hit at a time after the entry was made and after its computation
\* resolved: the entry seen, and still there, expires at 0 + 5000.
C16_Witness ==
    /\ LastWasHit
    /\ last.at > 0
    /\ promises[last.handle].outer.kind = "value"
    /\ last.seen.expires = DefaultTtlMs
    /\ MapHas(cache, LastKey)
    /\ cache[LastKey] = last.seen

\* ------------------------------------------------------------------ C17
\* The entry under k is gone or replaced after this step.
EntryLeaves(k) == MapHas(cache, k) /\ (~MapHas(cache', k) \/ cache'[k] # cache[k])

\* C17: an entry leaves the Map only in a step that is clear(), or a call
\* for its key that finds it expired, or the failure handler of a
\* computation made for its key; a tick of the clock and the fulfilment of
\* a computation leave every entry as it is.
C17_OnlyThreeWaysOut ==
    [][/\ \A k \in DOMAIN cache : EntryLeaves(k) =>
             \/ ClearStep
             \/ CallStep(k) /\ now >= cache[k].expires
             \/ \E p \in PromiseIds : HandlerStep(p) /\ KeyOf(p) = k
       /\ now' # now => cache' = cache
       /\ (\E p \in PromiseIds :
               \/ promises[p].inner = Pending /\ promises'[p].inner.kind = "value"
               \/ promises[p].outer = Pending /\ promises'[p].outer.kind = "value")
             => cache' = cache]_vars

\* An entry whose computation fulfilled is still in the Map after its
\* expiry time has passed.
C17_Witness ==
    \E k \in DOMAIN cache :
        /\ cache[k].expires < now
        /\ promises[cache[k].promise].outer.kind = "value"

\* ------------------------------------------------------------------ C18
\* C18 as stated: every entry under key K holds the handle of a computation
\* that was invoked with arguments whose key is K, so the handle a caller
\* receives is never that of a computation invoked with an argument tuple
\* different from the caller's.
C18_NoCrossKeyLeak ==
    /\ \A k \in DOMAIN cache : KeyOf(cache[k].promise) = k
    /\ (last.on = 1 /\ last.handle # 0)
          => /\ KeyOf(last.handle) = LastKey
             /\ SameValue(promises[last.handle].args, last.args)

\* The part of C18 that the code does: an entry under K holds a handle made
\* for arguments whose key is K, and a caller gets a handle only of its key.
C18_EntryUnderOwnKey ==
    /\ \A k \in DOMAIN cache : KeyOf(cache[k].promise) = k
    /\ (last.on = 1 /\ last.handle # 0) => KeyOf(last.handle) = LastKey

\* ------------------------------------------------------------------ C19
\* The latest call invoked fn and fn threw before returning a promise.
LastThrew == last.on = 1 /\ last.invoked /\ last.threw

\* C19: when fn throws synchronously on a miss the call fails, no promise
\* and no entry are made, an expired entry the call found under its key is
\* gone, the other keys are untouched, and the next call for the key
\* invokes fn again.
C19_SyncThrow ==
    [][/\ \A k \in Keys : (CallStep(k) /\ last'.threw) =>
             /\ last'.invoked /\ last'.handle = 0
             /\ promises' = promises
             /\ ~MapHas(cache', k)
             /\ \A j \in Keys \ {k} : EntryOf(cache', j) = EntryOf(cache, j)
       /\ (LastThrew /\ CallStep(LastKey)) => last'.invoked]_vars

\* fn threw in a call that had found an expired entry under its key, and
\* the key has no entry now.
C19_Witness ==
    /\ LastThrew
    /\ LastSawExpired
    /\ ~MapHas(cache, LastKey)

\* ------------------------------------------------------------------ C20
\* This step is a call of the memoized function i.
CallOn(i) == ncalls' = ncalls + 1 /\ last'.on = i

\* This step is the run of the .catch handler of a promise made by the
\* memoized function i.
HandlerOn(i) == \E p \in PromiseIds : HandlerStep(p) /\ promises[p].of = i

\* C20: each memoizeAsync(fn, ttlMs) has a Map of its own. A call or a
\* failure on one memoized function leaves the Map of the other as it is,
\* no step (clear() included) changes both Maps, and a call is answered
\* from its own Map only: with nothing under the key there fn is invoked,
\* whatever the other Map holds.
C20_PrivateStores ==
    [][/\ (CallOn(1) \/ HandlerOn(1)) => cache2' = cache2
       /\ (CallOn(2) \/ HandlerOn(2)) => cache' = cache
       /\ cache' = cache \/ cache2' = cache2
       /\ (CallOn(2) /\ ~MapHas(cache2, JSONstringify(last'.args))) => last'.invoked
       /\ (CallOn(1) /\ ~MapHas(cache, JSONstringify(last'.args))) => last'.invoked
       /\ CallOn(2) => (last'.handle = 0 \/ promises'[last'.handle].of = 2)
       /\ CallOn(1) => (last'.handle = 0 \/ promises'[last'.handle].of = 1)]_vars

\* The second memoized function made a handle for a key and its Map was
\* emptied since, while the first still holds its own entry under that key.
C20_Witness ==
    \E p \in PromiseIds :
        /\ promises[p].of = 2
        /\ ~MapHas(cache2, KeyOf(p))
        /\ ~Rejected(p)
        /\ MapHas(cache, KeyOf(p))
        /\ promises[cache[KeyOf(p)].promise].of = 1

====
